---- MODULE Spec2Model ----
(***************************************************************************)
(* Inventory-management REST API: the stock-mutation workflow.             *)
(*                                                                         *)
(* The database tables the services touch are the state.  Every service    *)
(* method is an operator from a database value to a response and the       *)
(* database value it leaves behind; an AppError thrown inside              *)
(* prisma.$transaction rolls the transaction back, so a rejected call      *)
(* leaves the database as it found it.                                     *)
(*                                                                         *)
(* The schema of the repository is the SQLite migration                    *)
(* (prisma/migrations/20250802180117_init/migration.sql).  It declares no  *)
(* CHECK constraint on Stock.quantity and no unique index on               *)
(* Stock(productId, locationId).  SQLite transactions are serializable: a  *)
(* transaction that has read the database and then writes after another    *)
(* transaction committed is refused by the engine (SQLITE_BUSY) and        *)
(* surfaces as a database error, not as an AppError.                       *)
(***************************************************************************)
EXTENDS Integers, Sequences, FiniteSets, TLC

\* ---------------------------------------------------------------- bounds
NumProducts == 2
NumLocations == 2
MaxQty == 2
MaxItems == 2
MaxOps == 3
NumReq == 2
NumSkus == 3
MaxOrderOps == 5

Products == 1..NumProducts
\* Location l belongs to warehouse l; id NumLocations + 1 names no location.
Locations == 1..NumLocations
Warehouses == 1..NumLocations
LocationIds == 1..(NumLocations + 1)
Quantities == 1..MaxQty
\* Supplier NumSuppliers + 1 does not exist.
Suppliers == {1}
SupplierIds == {1, 2}
Requests == 1..NumReq

VARIABLES stock, movements, adjustments, purchaseOrders, salesOrders,
          last, nops, req, receipts, created,
          products, users, areq, http, refs

dbvars == <<stock, movements, adjustments, purchaseOrders, salesOrders>>
\* The Product and User tables, the createProduct and register calls under
\* way, and the request passing through the middleware.
\* refs: the Warehouse, Location and Supplier rows that exist.
auxvars == <<products, users, areq, http, refs>>
vars == <<stock, movements, adjustments, purchaseOrders, salesOrders,
          last, nops, req, receipts, created,
          products, users, areq, http, refs>>

\* The database as one value: what a statement reads and what it leaves.
DB ==
  [stock |-> stock, movements |-> movements, adjustments |-> adjustments,
   purchaseOrders |-> purchaseOrders, salesOrders |-> salesOrders]

EmptyDB ==
  [stock |-> <<>>, movements |-> <<>>, adjustments |-> <<>>,
   purchaseOrders |-> <<>>, salesOrders |-> <<>>]

\* ------------------------------------------------------------- responses
\* A returned value: the HTTP status the controller answers with.
Ok(code, d) == [status |-> code, message |-> "", db |-> d]

\* throw new AppError(message, statusCode): errorHandler answers with the
\* error's statusCode and message; nothing the call wrote survives.
AppError(msg, code, d) == [status |-> code, message |-> msg, db |-> d]

\* Reasons of StockMovement rows, by the template that builds them.
UserReason == [kind |-> "user", ref |-> 0]
Reason(k, id) == [kind |-> k, ref |-> id]

Movement(s, t, q, r) ==
  [stockId |-> s, movementType |-> t, quantity |-> q, reason |-> r]

Adjustment(s, t, q) == [stockId |-> s, adjustmentType |-> t, quantity |-> q]

Item(p, q) == [productId |-> p, quantity |-> q]

\* ---------------------------------------------------------------- queries
Min(S) == CHOOSE x \in S : \A y \in S : x <= y

\* stock.findFirst({where: {productId}}): the first matching row in rowid
\* order, 0 for null.
FindFirstStock(d, p) ==
  LET S == {i \in DOMAIN d.stock : d.stock[i].productId = p}
  IN IF S = {} THEN 0 ELSE Min(S)

\* stock.findFirst({where: {productId, locationId}})
FindFirstStockAt(d, p, l) ==
  LET S == {i \in DOMAIN d.stock :
              d.stock[i].productId = p /\ d.stock[i].locationId = l}
  IN IF S = {} THEN 0 ELSE Min(S)

\* ------------------------------------------------------------ StockService
createStock(d, productId, warehouseId, locationId, quantity) ==
  IF locationId \notin Locations \/ locationId /= warehouseId
  THEN AppError("Invalid location for warehouse", 400, d)
  ELSE IF FindFirstStockAt(d, productId, locationId) /= 0
  THEN AppError("Stock already exists for this product in this location", 400, d)
  ELSE Ok(201, [d EXCEPT !.stock = Append(@,
         [productId |-> productId, warehouseId |-> warehouseId,
          locationId |-> locationId, quantity |-> quantity])])

recordMovement(d, stockId, movementType, quantity) ==
  IF stockId \notin DOMAIN d.stock
  THEN AppError("Stock not found", 404, d)
  ELSE IF movementType = "OUT" /\ d.stock[stockId].quantity < quantity
  THEN AppError("Insufficient stock quantity", 400, d)
  ELSE LET newQuantity == IF movementType = "IN"
                          THEN d.stock[stockId].quantity + quantity
                          ELSE d.stock[stockId].quantity - quantity
       IN Ok(201, [d EXCEPT !.stock[stockId].quantity = newQuantity,
                            !.movements = Append(@,
                               Movement(stockId, movementType, quantity, UserReason))])

adjustStock(d, stockId, adjustmentType, quantity) ==
  IF stockId \notin DOMAIN d.stock
  THEN AppError("Stock not found", 404, d)
  ELSE IF adjustmentType = "REMOVE" /\ d.stock[stockId].quantity < quantity
  THEN AppError("Insufficient stock quantity", 400, d)
  ELSE LET newQuantity == IF adjustmentType = "ADD"
                          THEN d.stock[stockId].quantity + quantity
                          ELSE d.stock[stockId].quantity - quantity
       IN Ok(201, [d EXCEPT !.stock[stockId].quantity = newQuantity,
                            !.adjustments = Append(@,
                               Adjustment(stockId, adjustmentType, quantity))])

\* transferStock that creates the target row before it looks the target
\* location up, and keeps it when it throws.
transferStock_CreateFirst(d, sourceStockId, targetLocationId, quantity) ==
  IF sourceStockId \notin DOMAIN d.stock
  THEN AppError("Source stock not found", 404, d)
  ELSE IF d.stock[sourceStockId].quantity < quantity
  THEN AppError("Insufficient stock quantity", 400, d)
  ELSE AppError("Target location not found", 404,
         [d EXCEPT !.stock = Append(@,
            [productId |-> d.stock[sourceStockId].productId,
             warehouseId |-> targetLocationId,
             locationId |-> targetLocationId, quantity |-> 0])])

\* The target row is read (and created at 0 when missing) before the source
\* row is updated; both updates write values computed from those reads.
transferStock(d, sourceStockId, targetLocationId, quantity) ==
  IF sourceStockId \notin DOMAIN d.stock
  THEN AppError("Source stock not found", 404, d)
  ELSE IF d.stock[sourceStockId].quantity < quantity
  THEN AppError("Insufficient stock quantity", 400, d)
  ELSE IF targetLocationId \notin Locations
  THEN AppError("Target location not found", 404, d)
  ELSE
    LET sourceStock == d.stock[sourceStockId]
        found == FindFirstStockAt(d, sourceStock.productId, targetLocationId)
        d1 == IF found /= 0 THEN d
              ELSE [d EXCEPT !.stock = Append(@,
                      [productId |-> sourceStock.productId,
                       warehouseId |-> targetLocationId,
                       locationId |-> targetLocationId, quantity |-> 0])]
        targetId == IF found /= 0 THEN found ELSE Len(d1.stock)
        targetStock == d1.stock[targetId]
        d2 == [d1 EXCEPT !.stock[sourceStockId].quantity =
                            sourceStock.quantity - quantity]
        d3 == [d2 EXCEPT !.stock[targetId].quantity =
                            targetStock.quantity + quantity]
    IN Ok(200, [d3 EXCEPT !.movements = @ \o
          <<Movement(sourceStockId, "OUT", quantity, Reason("TransferOut", 0)),
            Movement(targetId, "IN", quantity, Reason("TransferIn", 0))>>])

\* ---------------------------------------------------- PurchaseOrderService
\* product.findMany({where: {id: {in: productIds}}}).length: the distinct
\* existing products among the items.
FoundProducts(items) ==
  Cardinality({items[i].productId : i \in DOMAIN items} \cap Products)

createPurchaseOrder(d, supplierId, items) ==
  IF Len(items) = 0
  THEN AppError("Purchase order must have at least one item", 400, d)
  ELSE IF supplierId \notin Suppliers
  THEN AppError("Supplier not found", 404, d)
  ELSE IF FoundProducts(items) /= Len(items)
  THEN AppError("One or more products not found", 400, d)
  ELSE Ok(201, [d EXCEPT !.purchaseOrders = Append(@,
         [supplierId |-> supplierId, status |-> "open", items |-> items])])

\* updatePurchaseOrderSchema: Joi.string().valid('open', 'received', 'cancelled')
PurchaseOrderStatuses == {"open", "received", "cancelled"}

\* A deleted row: no query finds it again.
DeletedPurchaseOrder == [supplierId |-> 0, status |-> "deleted", items |-> <<>>]

\* purchaseOrder.findUnique({where: {id}}) returns a row.
PurchaseOrderExists(d, id) ==
  id \in DOMAIN d.purchaseOrders /\ d.purchaseOrders[id] /= DeletedPurchaseOrder

getPurchaseOrderById(d, id) ==
  IF ~PurchaseOrderExists(d, id)
  THEN AppError("Purchase order not found", 404, d)
  ELSE Ok(200, d)

\* errorHandler on a PrismaClientKnownRequestError other than P2002.
KnownRequestError(d) ==
  [status |-> 400, message |-> "Database operation failed", db |-> d]

\* The DELETE statement: PurchaseOrderItem.purchaseOrderId references the
\* order ON DELETE RESTRICT, so the engine refuses it while the order has
\* items.
DeletePurchaseOrderRow(d, id) ==
  IF ~PurchaseOrderExists(d, id) \/ Len(d.purchaseOrders[id].items) > 0
  THEN KnownRequestError(d)
  ELSE Ok(204, [d EXCEPT !.purchaseOrders[id] = DeletedPurchaseOrder])

deletePurchaseOrder(d, id) ==
  IF ~PurchaseOrderExists(d, id)
  THEN AppError("Purchase order not found", 404, d)
  ELSE IF d.purchaseOrders[id].status = "received"
  THEN AppError("Cannot delete a received purchase order", 400, d)
  ELSE DeletePurchaseOrderRow(d, id)

\* The UPDATE statement of updatePurchaseOrder.
UpdatePurchaseOrderRow(d, id, status) ==
  IF ~PurchaseOrderExists(d, id)
  THEN KnownRequestError(d)
  ELSE Ok(200, [d EXCEPT !.purchaseOrders[id].status = status])

updatePurchaseOrder(d, id, status) ==
  IF ~PurchaseOrderExists(d, id)
  THEN AppError("Purchase order not found", 404, d)
  ELSE IF d.purchaseOrders[id].status = "received"
  THEN AppError("Cannot update a received purchase order", 400, d)
  ELSE UpdatePurchaseOrderRow(d, id, status)

\* One turn of "for (const item of order.items)": the row is read afresh in
\* the transaction; an item whose product has no Stock row is passed over.
ReceiveItem(d, id, item) ==
  LET s == FindFirstStock(d, item.productId)
  IN IF s = 0 THEN d
     ELSE [d EXCEPT !.stock[s].quantity = @ + item.quantity,
                    !.movements = Append(@,
                       Movement(s, "IN", item.quantity, Reason("PurchaseOrder", id)))]

RECURSIVE ReceiveItems(_, _, _, _)
ReceiveItems(d, id, items, i) ==
  IF i > Len(items) THEN d
  ELSE ReceiveItems(ReceiveItem(d, id, items[i]), id, items, i + 1)

\* receivePurchaseOrder without its status test.
AlreadyReceived_Never(order) == FALSE

AlreadyReceived(order) == order.status = "received"

receivePurchaseOrder(d, id) ==
  IF ~PurchaseOrderExists(d, id)
  THEN AppError("Purchase order not found", 404, d)
  ELSE IF AlreadyReceived(d.purchaseOrders[id])
  THEN AppError("Purchase order already received", 400, d)
  ELSE LET d1 == ReceiveItems(d, id, d.purchaseOrders[id].items, 1)
       IN Ok(200, [d1 EXCEPT !.purchaseOrders[id].status = "received"])

\* ------------------------------------------------------- SalesOrderService
\* The availability check of one item, made with the plain client before
\* the transaction opens: !stock || stock.quantity < item.quantity.
ItemAvailable(d, item) ==
  LET s == FindFirstStock(d, item.productId)
  IN s /= 0 /\ ~(d.stock[s].quantity < item.quantity)

SalesOrderItem(d, id, item) ==
  LET s == FindFirstStock(d, item.productId)
  IN IF s = 0 THEN d
     ELSE [d EXCEPT !.stock[s].quantity = @ - item.quantity,
                    !.movements = Append(@,
                       Movement(s, "OUT", item.quantity, Reason("SalesOrder", id)))]

RECURSIVE SalesOrderItems(_, _, _, _)
SalesOrderItems(d, id, items, i) ==
  IF i > Len(items) THEN d
  ELSE SalesOrderItems(SalesOrderItem(d, id, items[i]), id, items, i + 1)

\* The transaction of createSalesOrder: the order row, then the item loop.
createSalesOrderTx(d, items) ==
  LET d1 == [d EXCEPT !.salesOrders = Append(@,
                        [status |-> "open", items |-> items])]
  IN Ok(201, SalesOrderItems(d1, Len(d1.salesOrders), items, 1))

\* createSalesOrder when nothing else runs between its check and its
\* transaction.
createSalesOrder(d, items) ==
  IF Len(items) = 0
  THEN AppError("Sales order must have at least one item", 400, d)
  ELSE IF \E i \in DOMAIN items : ~ItemAvailable(d, items[i])
  THEN AppError("Insufficient stock for items", 400, d)
  ELSE createSalesOrderTx(d, items)

\* updateSalesOrderSchema: Joi.string().valid('open', 'completed', 'cancelled')
SalesOrderStatuses == {"open", "completed", "cancelled"}

updateSalesOrder(d, id, status) ==
  IF id \notin DOMAIN d.salesOrders
  THEN AppError("Sales order not found", 404, d)
  ELSE IF d.salesOrders[id].status = "completed"
  THEN AppError("Cannot update a completed sales order", 400, d)
  ELSE Ok(200, [d EXCEPT !.salesOrders[id].status = status])

\* cancelSalesOrder with an item loop that restores nothing.
CancelItem_Skip(d, id, item) == d

CancelItem(d, id, item) ==
  LET s == FindFirstStock(d, item.productId)
  IN IF s = 0 THEN d
     ELSE [d EXCEPT !.stock[s].quantity = @ + item.quantity,
                    !.movements = Append(@,
                       Movement(s, "IN", item.quantity,
                                Reason("SalesOrderCancelled", id)))]

RECURSIVE CancelItems(_, _, _, _)
CancelItems(d, id, items, i) ==
  IF i > Len(items) THEN d
  ELSE CancelItems(CancelItem(d, id, items[i]), id, items, i + 1)

\* cancelSalesOrder without its tests of the status.
cancelSalesOrder_Again(d, id) ==
  IF id \notin DOMAIN d.salesOrders
  THEN AppError("Sales order not found", 404, d)
  ELSE LET d1 == CancelItems(d, id, d.salesOrders[id].items, 1)
       IN Ok(200, [d1 EXCEPT !.salesOrders[id].status = "cancelled"])

cancelSalesOrder(d, id) ==
  IF id \notin DOMAIN d.salesOrders
  THEN AppError("Sales order not found", 404, d)
  ELSE IF d.salesOrders[id].status = "cancelled"
  THEN AppError("Order is already cancelled", 400, d)
  ELSE IF d.salesOrders[id].status = "completed"
  THEN AppError("Cannot cancel a completed order", 400, d)
  ELSE LET d1 == CancelItems(d, id, d.salesOrders[id].items, 1)
       IN Ok(200, [d1 EXCEPT !.salesOrders[id].status = "cancelled"])

\* ------------------------------------------------------------ the requests
StockIds(d) == 1..(Len(d.stock) + 1)
PurchaseOrderIds(d) == 1..(Len(d.purchaseOrders) + 1)
SalesOrderIds(d) == 1..(Len(d.salesOrders) + 1)

Items == {Item(p, q) : p \in Products, q \in Quantities}
\* createSalesOrderSchema / createPurchaseOrderSchema: items.min(1), each
\* quantity >= 1; the same product may appear in several items.
ItemLists == UNION {[1..n -> Items] : n \in 1..MaxItems}
SingleItemLists == [1..1 -> Items]

\* The request bodies that pass validate(schema), per route.
CreateStockCalls ==
  {[op |-> "createStock", productId |-> p, warehouseId |-> w,
    locationId |-> l, quantity |-> q] :
      p \in Products, w \in Warehouses, l \in LocationIds, q \in 0..MaxQty}

RecordMovementCalls(d) ==
  {[op |-> "recordMovement", stockId |-> s, movementType |-> t,
    quantity |-> q] :
      s \in StockIds(d), t \in {"IN", "OUT"}, q \in Quantities}

AdjustStockCalls(d) ==
  {[op |-> "adjustStock", stockId |-> s, adjustmentType |-> t,
    quantity |-> q] :
      s \in StockIds(d), t \in {"ADD", "REMOVE"}, q \in Quantities}

TransferStockCalls(d) ==
  {[op |-> "transferStock", sourceStockId |-> s, targetLocationId |-> l,
    quantity |-> q] :
      s \in StockIds(d), l \in LocationIds, q \in Quantities}

CreatePurchaseOrderCalls ==
  {[op |-> "createPurchaseOrder", supplierId |-> u, items |-> it] :
      u \in SupplierIds, it \in ItemLists}

UpdatePurchaseOrderCalls(d) ==
  {[op |-> "updatePurchaseOrder", id |-> i, status |-> st] :
      i \in PurchaseOrderIds(d), st \in PurchaseOrderStatuses}

ReceivePurchaseOrderCalls(d) ==
  {[op |-> "receivePurchaseOrder", id |-> i] : i \in PurchaseOrderIds(d)}

DeletePurchaseOrderCalls(d) ==
  {[op |-> "deletePurchaseOrder", id |-> i] : i \in PurchaseOrderIds(d)}

GetPurchaseOrderByIdCalls(d) ==
  {[op |-> "getPurchaseOrderById", id |-> i] : i \in PurchaseOrderIds(d)}

CreateSalesOrderCalls ==
  {[op |-> "createSalesOrder", items |-> it] : it \in ItemLists}

UpdateSalesOrderCalls(d) ==
  {[op |-> "updateSalesOrder", id |-> i, status |-> st] :
      i \in SalesOrderIds(d), st \in SalesOrderStatuses}

CancelSalesOrderCalls(d) ==
  {[op |-> "cancelSalesOrder", id |-> i] : i \in SalesOrderIds(d)}

\* The service method a controller calls for a request.
Serve(d, c) ==
  CASE c.op = "createStock" ->
         createStock(d, c.productId, c.warehouseId, c.locationId, c.quantity)
    [] c.op = "recordMovement" ->
         recordMovement(d, c.stockId, c.movementType, c.quantity)
    [] c.op = "adjustStock" ->
         adjustStock(d, c.stockId, c.adjustmentType, c.quantity)
    [] c.op = "transferStock" ->
         transferStock(d, c.sourceStockId, c.targetLocationId, c.quantity)
    [] c.op = "createPurchaseOrder" ->
         createPurchaseOrder(d, c.supplierId, c.items)
    [] c.op = "updatePurchaseOrder" -> updatePurchaseOrder(d, c.id, c.status)
    [] c.op = "receivePurchaseOrder" -> receivePurchaseOrder(d, c.id)
    [] c.op = "deletePurchaseOrder" -> deletePurchaseOrder(d, c.id)
    [] c.op = "getPurchaseOrderById" -> getPurchaseOrderById(d, c.id)
    [] c.op = "createSalesOrder" -> createSalesOrder(d, c.items)
    [] c.op = "updateSalesOrder" -> updateSalesOrder(d, c.id, c.status)
    [] c.op = "cancelSalesOrder" -> cancelSalesOrder(d, c.id)

\* The model's window: quantities stay within MaxQty.
InWindow(d) == \A i \in DOMAIN d.stock : d.stock[i].quantity <= MaxQty

Idle == [pc |-> "idle", call |-> [op |-> "none"], snap |-> EmptyDB, avail |-> <<>>]

\* What the controller sends back, and what the call left in the database.
Respond(c, r) ==
  /\ stock' = r.db.stock
  /\ movements' = r.db.movements
  /\ adjustments' = r.db.adjustments
  /\ purchaseOrders' = r.db.purchaseOrders
  /\ salesOrders' = r.db.salesOrders
  /\ last' = [call |-> c, status |-> r.status, message |-> r.message]
  /\ receipts' =
       IF c.op = "createPurchaseOrder" /\ r.status = 201 THEN Append(receipts, 0)
       ELSE IF c.op = "receivePurchaseOrder" /\ r.status = 200
       THEN [receipts EXCEPT ![c.id] = @ + 1]
       ELSE receipts
  /\ created' = created \o
       [i \in 1..(Len(r.db.stock) - Len(stock)) |->
          IF c.op = "createStock" THEN c.quantity ELSE 0]
  /\ UNCHANGED auxvars

\* The products the stock workflow runs over: product p has sku p and
\* barcode p, and is supplied by supplier 1 to warehouse 1.
SeededProducts ==
  [p \in Products |->
     [sku |-> p, barcode |-> p, supplierId |-> 1, warehouseId |-> 1]]

\* The warehouses, locations and suppliers the stock workflow runs over.
SeededRefs ==
  [warehouses |-> Warehouses, locations |-> Locations, suppliers |-> Suppliers]

IdleCall == [pc |-> "idle", call |-> [op |-> "none"], seen |-> 0, seenSku |-> 0]

NoUser == [userId |-> 0, role |-> "none"]
\* next() called with no argument.
NoError ==
  [class |-> "none", name |-> "", statusCode |-> 0, code |-> "", message |-> ""]
NoResponse == [status |-> 0, body |-> [status |-> "", message |-> ""]]
NoToken == [signedWith |-> "", expired |-> FALSE, userId |-> 0, role |-> ""]
\* No Authorization header.
NoHeader ==
  [present |-> FALSE, scheme |-> "", space |-> FALSE, token |-> NoToken,
   trailing |-> FALSE]
NoRequest ==
  [pc |-> "none", header |-> NoHeader, route |-> "none", user |-> NoUser,
   error |-> NoError, nexts |-> <<>>, ran |-> FALSE, response |-> NoResponse]

Init ==
  /\ stock = <<>>
  /\ movements = <<>>
  /\ adjustments = <<>>
  /\ purchaseOrders = <<>>
  /\ salesOrders = <<>>
  /\ last = [call |-> [op |-> "none"], status |-> 0, message |-> ""]
  /\ nops = 0
  /\ req = [r \in Requests |-> Idle]
  /\ receipts = <<>>
  /\ created = <<>>
  /\ products = SeededProducts
  /\ users = <<>>
  /\ areq = [r \in Requests |-> IdleCall]
  /\ http = NoRequest
  /\ refs = SeededRefs

\* A request handled with no other request running meanwhile, as one of
\* at most max requests.
HandleWithin(c, max) ==
  /\ \A r \in Requests : req[r].pc = "idle"
  /\ nops < max
  /\ InWindow(Serve(DB, c).db)
  /\ Respond(c, Serve(DB, c))
  /\ nops' = nops + 1
  /\ UNCHANGED req

Handle(c) == HandleWithin(c, MaxOps)

CreateStock == \E c \in CreateStockCalls : Handle(c)
RecordMovement == \E c \in RecordMovementCalls(DB) : Handle(c)
AdjustStock == \E c \in AdjustStockCalls(DB) : Handle(c)
TransferStock == \E c \in TransferStockCalls(DB) : Handle(c)
CreatePurchaseOrder == \E c \in CreatePurchaseOrderCalls : Handle(c)
UpdatePurchaseOrder == \E c \in UpdatePurchaseOrderCalls(DB) : Handle(c)
ReceivePurchaseOrder == \E c \in ReceivePurchaseOrderCalls(DB) : Handle(c)
DeletePurchaseOrder == \E c \in DeletePurchaseOrderCalls(DB) : Handle(c)
GetPurchaseOrderById == \E c \in GetPurchaseOrderByIdCalls(DB) : Handle(c)
CreateSalesOrder == \E c \in CreateSalesOrderCalls : Handle(c)
UpdateSalesOrder == \E c \in UpdateSalesOrderCalls(DB) : Handle(c)
CancelSalesOrder == \E c \in CancelSalesOrderCalls(DB) : Handle(c)

Next ==
  \/ CreateStock
  \/ RecordMovement
  \/ AdjustStock
  \/ TransferStock
  \/ CreatePurchaseOrder
  \/ UpdatePurchaseOrder
  \/ ReceivePurchaseOrder
  \/ DeletePurchaseOrder
  \/ GetPurchaseOrderById
  \/ CreateSalesOrder
  \/ UpdateSalesOrder
  \/ CancelSalesOrder

\* Requests served one at a time.
Spec == Init /\ [][Next]_vars

\* ------------------------------------------------------ sales order lives
\* One Stock row per product, then sales orders created, updated and
\* cancelled one request at a time.
StockForSale == \E c \in CreateStockCalls :
  /\ c.locationId = 1
  /\ c.quantity > 0
  /\ Serve(DB, c).status = 201
  /\ HandleWithin(c, MaxOrderOps)

SellOrder == \E c \in CreateSalesOrderCalls :
  /\ c.op = "createSalesOrder"
  /\ HandleWithin(c, MaxOrderOps)

ChangeSalesOrder == \E c \in UpdateSalesOrderCalls(DB) :
  HandleWithin(c, MaxOrderOps)

CancelOrder == \E c \in CancelSalesOrderCalls(DB) :
  HandleWithin(c, MaxOrderOps)

NextOrders ==
  \/ StockForSale
  \/ SellOrder
  \/ ChangeSalesOrder
  \/ CancelOrder

SpecOrders == Init /\ [][NextOrders]_vars

\* ------------------------------------------------- requests that interleave
\* What the callback handed to prisma.$transaction computes from the
\* database its transaction sees.
TxBody(d, c) ==
  IF c.op = "createSalesOrder" THEN createSalesOrderTx(d, c.items)
  ELSE Serve(d, c)

\* The engine refuses the write of a transaction whose view of the database
\* is no longer the committed one.
Conflict(r) == req[r].snap /= DB

\* errorHandler on an error that is no AppError: a known Prisma request
\* error is answered 400, any other error 500.
DatabaseErrors ==
  {[status |-> 400, message |-> "Database operation failed"],
   [status |-> 500, message |-> "Internal server error"]}

Rejected(r, d) == [status |-> r.status, message |-> r.message, db |-> d]

\* A new request takes the first free slot.
FirstFree(r) ==
  /\ req[r].pc = "idle"
  /\ \A q \in Requests : q < r => req[q].pc /= "idle"

\* A row or an order created by a request that runs alone.
SetupStock == \E c \in CreateStockCalls :
  Serve(DB, c).status = 201 /\ Handle(c)

SetupPurchaseOrder == \E c \in CreatePurchaseOrderCalls :
  Serve(DB, c).status = 201 /\ Handle(c)

\* prisma.$transaction(async (tx) => ...) opens; the transaction sees the
\* database as committed at this moment.
Begin(r, c, max) ==
  /\ FirstFree(r)
  /\ nops < max
  /\ req' = [req EXCEPT ![r] =
               [pc |-> "tx", call |-> c, snap |-> DB, avail |-> <<>>]]
  /\ nops' = nops + 1
  /\ UNCHANGED <<dbvars, last, receipts, created, auxvars>>

BeginStockTx == \E r \in Requests :
  \E c \in RecordMovementCalls(DB) \cup AdjustStockCalls(DB)
           \cup TransferStockCalls(DB) : Begin(r, c, MaxOps)

BeginReceive == \E r \in Requests :
  \E c \in ReceivePurchaseOrderCalls(DB) : Begin(r, c, MaxOps + 1)

\* The callback throws an AppError: rollback, the error goes to next().
TxReject == \E r \in Requests :
  /\ req[r].pc = "tx"
  /\ TxBody(req[r].snap, req[r].call).status >= 400
  /\ Respond(req[r].call, Rejected(TxBody(req[r].snap, req[r].call), DB))
  /\ req' = [req EXCEPT ![r] = Idle]
  /\ UNCHANGED nops

\* The callback's writes are refused by the engine: rollback, a database
\* error goes to next().
TxAbort == \E r \in Requests, e \in DatabaseErrors :
  /\ req[r].pc = "tx"
  /\ TxBody(req[r].snap, req[r].call).status < 400
  /\ Conflict(r)
  /\ Respond(req[r].call, Rejected(e, DB))
  /\ req' = [req EXCEPT ![r] = Idle]
  /\ UNCHANGED nops

\* The callback returns and the transaction commits.
TxCommit == \E r \in Requests :
  /\ req[r].pc = "tx"
  /\ TxBody(req[r].snap, req[r].call).status < 400
  /\ ~Conflict(r)
  /\ InWindow(TxBody(req[r].snap, req[r].call).db)
  /\ Respond(req[r].call, TxBody(req[r].snap, req[r].call))
  /\ req' = [req EXCEPT ![r] = Idle]
  /\ UNCHANGED nops

\* createSalesOrder, step by step: the availability reads with the plain
\* client, then the transaction.
StartSalesOrder(r, c, max) ==
  /\ FirstFree(r)
  /\ nops < max
  /\ req' = [req EXCEPT ![r] =
               [pc |-> "check", call |-> c, snap |-> EmptyDB, avail |-> <<>>]]
  /\ nops' = nops + 1
  /\ UNCHANGED <<dbvars, last, receipts, created, auxvars>>

\* Orders of one item each.
StartSales == \E r \in Requests, it \in SingleItemLists :
  StartSalesOrder(r, [op |-> "createSalesOrder", items |-> it], MaxOps)

CheckItem == \E r \in Requests :
  /\ req[r].pc = "check"
  /\ Len(req[r].avail) < Len(req[r].call.items)
  /\ req' = [req EXCEPT ![r].avail =
               Append(@, ItemAvailable(DB, req[r].call.items[Len(@) + 1]))]
  /\ UNCHANGED <<dbvars, last, nops, receipts, created, auxvars>>

SalesReject == \E r \in Requests :
  /\ req[r].pc = "check"
  /\ Len(req[r].avail) = Len(req[r].call.items)
  /\ \E i \in DOMAIN req[r].avail : ~req[r].avail[i]
  /\ Respond(req[r].call, AppError("Insufficient stock for items", 400, DB))
  /\ req' = [req EXCEPT ![r] = Idle]
  /\ UNCHANGED nops

SalesBegin == \E r \in Requests :
  /\ req[r].pc = "check"
  /\ Len(req[r].avail) = Len(req[r].call.items)
  /\ \A i \in DOMAIN req[r].avail : req[r].avail[i]
  /\ req' = [req EXCEPT ![r].pc = "tx", ![r].snap = DB]
  /\ UNCHANGED <<dbvars, last, nops, receipts, created, auxvars>>

\* Movements, adjustments and transfers that overlap one another.
NextConc ==
  \/ SetupStock
  \/ BeginStockTx
  \/ TxReject
  \/ TxAbort
  \/ TxCommit

SpecConc == Init /\ [][NextConc]_vars

\* Sales orders that overlap one another.
NextSales ==
  \/ SetupStock
  \/ StartSales
  \/ CheckItem
  \/ SalesReject
  \/ SalesBegin
  \/ TxAbort
  \/ TxCommit

SpecSales == Init /\ [][NextSales]_vars

\* Receipts of purchase orders that overlap one another.
NextReceive ==
  \/ SetupStock
  \/ SetupPurchaseOrder
  \/ UpdatePurchaseOrder
  \/ BeginReceive
  \/ TxReject
  \/ TxAbort
  \/ TxCommit

SpecReceive == Init /\ [][NextReceive]_vars

\* updatePurchaseOrder and deletePurchaseOrder run outside any transaction:
\* findUnique is one statement, the write a later one.
BeginUpdate == \E r \in Requests :
  \E c \in UpdatePurchaseOrderCalls(DB) :
    /\ FirstFree(r)
    /\ nops < MaxOps
    /\ req' = [req EXCEPT ![r] =
                 [pc |-> "found", call |-> c, snap |-> DB, avail |-> <<>>]]
    /\ nops' = nops + 1
    /\ UNCHANGED <<dbvars, last, receipts, created, auxvars>>

BeginDelete == \E r \in Requests :
  \E c \in DeletePurchaseOrderCalls(DB) :
    /\ FirstFree(r)
    /\ nops < MaxOps
    /\ req' = [req EXCEPT ![r] =
                 [pc |-> "found", call |-> c, snap |-> DB, avail |-> <<>>]]
    /\ nops' = nops + 1
    /\ UNCHANGED <<dbvars, last, receipts, created, auxvars>>

\* The tests on the row findUnique returned, then the write on the database
\* as it is now.
FinishUpdate == \E r \in Requests :
  LET c == req[r].call
      seen == updatePurchaseOrder(req[r].snap, c.id, c.status)
  IN /\ req[r].pc = "found"
     /\ c.op = "updatePurchaseOrder"
     /\ Respond(c, IF seen.status >= 400 THEN Rejected(seen, DB)
                   ELSE UpdatePurchaseOrderRow(DB, c.id, c.status))
     /\ req' = [req EXCEPT ![r] = Idle]
     /\ UNCHANGED nops

FinishDelete == \E r \in Requests :
  LET c == req[r].call
      seen == deletePurchaseOrder(req[r].snap, c.id)
  IN /\ req[r].pc = "found"
     /\ c.op = "deletePurchaseOrder"
     /\ Respond(c, IF \/ ~PurchaseOrderExists(req[r].snap, c.id)
                      \/ req[r].snap.purchaseOrders[c.id].status = "received"
                   THEN Rejected(seen, DB)
                   ELSE DeletePurchaseOrderRow(DB, c.id))
     /\ req' = [req EXCEPT ![r] = Idle]
     /\ UNCHANGED nops

\* Receipts, updates and deletions of purchase orders that overlap.
NextTerminal ==
  \/ SetupStock
  \/ SetupPurchaseOrder
  \/ BeginReceive
  \/ TxReject
  \/ TxAbort
  \/ TxCommit
  \/ BeginUpdate
  \/ FinishUpdate
  \/ BeginDelete
  \/ FinishDelete

SpecTerminal == Init /\ [][NextTerminal]_vars

\* ----------------------------------------------------------- ProductService
Skus == 1..NumSkus
Barcodes == 1..NumSkus
\* Category NumCategories + 1 does not exist.
Categories == {1}
CategoryIds == {1, 2}

\* A deleted Product row.
DeletedProduct == [sku |-> 0, barcode |-> 0, supplierId |-> 0, warehouseId |-> 0]

ProductIds(ps) == {i \in DOMAIN ps : ps[i] /= DeletedProduct}

\* product.findFirst({where: {OR: [{sku}, {barcode}]}}): 0 for null.
FindFirstProduct(ps, sku, barcode) ==
  LET S == {i \in ProductIds(ps) : ps[i].sku = sku \/ ps[i].barcode = barcode}
  IN IF S = {} THEN 0 ELSE Min(S)

\* The unique indexes without their effect.
UniqueViolation_Never(ps, sku, barcode) == FALSE

\* Product_sku_key and Product_barcode_key refuse the row.
UniqueViolation(ps, sku, barcode) ==
  \E i \in ProductIds(ps) : ps[i].sku = sku \/ ps[i].barcode = barcode

\* What a product call answers and the Product table it leaves.
Answer(code, msg, ps) == [status |-> code, message |-> msg, products |-> ps]

\* prisma.product.create: a P2002 error is answered 400 by errorHandler.
InsertProduct(ps, c) ==
  IF UniqueViolation(ps, c.sku, c.barcode)
  THEN Answer(400, "A unique constraint violation occurred", ps)
  ELSE Answer(201, "", Append(ps,
         [sku |-> c.sku, barcode |-> c.barcode, supplierId |-> c.supplierId,
          warehouseId |-> c.warehouseId]))

\* createProduct once findFirst has returned row number existing (0: null).
CreateProductAfterCheck(ps, c, existing, existingSku) ==
  IF existing /= 0
  THEN Answer(400, IF existingSku = c.sku
                   THEN "Product with same SKU already exists"
                   ELSE "Product with same barcode already exists", ps)
  ELSE IF c.categoryId \notin Categories
  THEN Answer(400, "Category not found", ps)
  ELSE IF c.supplierId \notin Suppliers
  THEN Answer(400, "Supplier not found", ps)
  ELSE IF c.warehouseId \notin Warehouses
  THEN Answer(400, "Warehouse not found", ps)
  ELSE InsertProduct(ps, c)

createProduct(ps, c) ==
  LET existing == FindFirstProduct(ps, c.sku, c.barcode)
  IN CreateProductAfterCheck(ps, c, existing,
       IF existing = 0 THEN 0 ELSE ps[existing].sku)

\* product._count of stocks, purchaseItems and salesItems.
ProductInUse(d, id) ==
  \/ \E i \in DOMAIN d.stock : d.stock[i].productId = id
  \/ \E i \in DOMAIN d.purchaseOrders :
       \E k \in DOMAIN d.purchaseOrders[i].items :
         d.purchaseOrders[i].items[k].productId = id
  \/ \E i \in DOMAIN d.salesOrders :
       \E k \in DOMAIN d.salesOrders[i].items :
         d.salesOrders[i].items[k].productId = id

deleteProduct(ps, d, id) ==
  IF id \notin ProductIds(ps)
  THEN Answer(404, "Product not found", ps)
  ELSE IF ProductInUse(d, id)
  THEN Answer(400, "Cannot delete product with existing stock or order history", ps)
  ELSE Answer(204, "", [ps EXCEPT ![id] = DeletedProduct])

\* The bodies that pass createProductSchema; at most one of the three
\* references names a row that does not exist.
CreateProductCalls ==
  {c \in [op : {"createProduct"}, sku : Skus, barcode : Barcodes,
          categoryId : CategoryIds, supplierId : SupplierIds,
          warehouseId : {1, NumLocations + 1}] :
     Cardinality({c.categoryId} \ Categories) + Cardinality({c.supplierId} \ Suppliers)
       + Cardinality({c.warehouseId} \ Warehouses) <= 1}

\* A createProduct or register call is answered.
RespondAux(c, code, msg) ==
  /\ last' = [call |-> c, status |-> code, message |-> msg]
  /\ UNCHANGED <<dbvars, req, receipts, created, http, refs>>

FirstFreeCall(r) ==
  /\ areq[r].pc = "idle"
  /\ \A q \in Requests : q < r => areq[q].pc /= "idle"

\* createProduct: findFirst is one statement, create a later one.
BeginCreateProduct == \E r \in Requests, c \in CreateProductCalls :
  /\ FirstFreeCall(r)
  /\ nops < MaxOps
  /\ nops' = nops + 1
  /\ areq' = [areq EXCEPT ![r] =
       [pc |-> "checked", call |-> c,
        seen |-> FindFirstProduct(products, c.sku, c.barcode),
        seenSku |->
          IF FindFirstProduct(products, c.sku, c.barcode) = 0 THEN 0
          ELSE products[FindFirstProduct(products, c.sku, c.barcode)].sku]]
  /\ UNCHANGED <<dbvars, last, req, receipts, created, products, users, http, refs>>

FinishCreateProduct == \E r \in Requests :
  LET c == areq[r].call
      a == CreateProductAfterCheck(products, c, areq[r].seen, areq[r].seenSku)
  IN /\ areq[r].pc = "checked"
     /\ c.op = "createProduct"
     /\ products' = a.products
     /\ RespondAux(c, a.status, a.message)
     /\ areq' = [areq EXCEPT ![r] = IdleCall]
     /\ UNCHANGED <<users, nops>>

DeleteProduct == \E id \in 1..(Len(products) + 1) :
  LET c == [op |-> "deleteProduct", id |-> id]
      a == deleteProduct(products, DB, id)
  IN /\ nops < MaxOps
     /\ nops' = nops + 1
     /\ products' = a.products
     /\ RespondAux(c, a.status, a.message)
     /\ UNCHANGED <<users, areq>>

NextProduct ==
  \/ BeginCreateProduct
  \/ FinishCreateProduct
  \/ DeleteProduct

\* The product catalogue, with createProduct calls that overlap.
SpecProduct == Init /\ [][NextProduct]_vars

\* -------------------------------------------------------------- middleware
Roles == {"admin", "manager", "user"}

\* new AppError(message, statusCode)
NewAppError(msg, code) ==
  [class |-> "AppError", name |-> "Error", statusCode |-> code, code |-> "",
   message |-> msg]

\* A token: the key it is signed with, whether its 24h have passed, and its
\* payload.  Text that is no JWT is a token signed with nothing.
Tokens ==
  {[signedWith |-> "JWT_SECRET", expired |-> FALSE, userId |-> 1, role |-> ro] :
     ro \in Roles}
  \cup {[signedWith |-> "JWT_SECRET", expired |-> TRUE, userId |-> 1, role |-> "admin"],
        [signedWith |-> "other", expired |-> FALSE, userId |-> 1, role |-> "admin"],
        NoToken}

\* jwt.verify(token, process.env.JWT_SECRET): the payload, or it throws.
jwtVerify(token) ==
  IF token.signedWith = "JWT_SECRET" /\ ~token.expired
  THEN [ok |-> TRUE, userId |-> token.userId, role |-> token.role]
  ELSE [ok |-> FALSE, userId |-> 0, role |-> ""]

\* An Authorization header: scheme, then (when space) a blank and the text
\* up to the next blank, then (when trailing) a blank and more text.
Headers ==
  {NoHeader} \cup
  {h \in [present : {TRUE}, scheme : {"Bearer", "bearer", "Basic"},
          space : BOOLEAN, token : Tokens, trailing : BOOLEAN] :
     ~h.space => (h.token = NoToken /\ ~h.trailing)}

\* authHeader?.startsWith('Bearer ')
StartsWithBearer(h) == h.present /\ h.scheme = "Bearer" /\ h.space

\* authHeader.split(' ')[1]
SplitToken(h) == h.token

\* authenticate: what it leaves in req.user and what it passes to next.
\* Whatever is thrown inside the try block, the catch block passes the same
\* 401 AppError on.
authenticate(h) ==
  IF ~StartsWithBearer(h) \/ ~jwtVerify(SplitToken(h)).ok
  THEN [user |-> NoUser, next |-> NewAppError("Invalid or expired token", 401)]
  ELSE [user |-> [userId |-> jwtVerify(SplitToken(h)).userId,
                  role |-> jwtVerify(SplitToken(h)).role],
        next |-> NoError]

\* authorize that lets every request through.
authorize_Open(allowedRoles, user) == NoError

\* authorize(...allowedRoles): what it passes to next.
authorize(allowedRoles, user) ==
  IF user = NoUser \/ user.role \notin allowedRoles
  THEN NewAppError("Not authorized to access this resource", 403)
  ELSE NoError

\* errorHandler that sends the error's own message.
errorHandler_Echo(err) ==
  [status |-> 500, body |-> [status |-> "error", message |-> err.message]]

\* errorHandler: the tests are instanceof tests, on the error's class.
errorHandler(err) ==
  IF err.class = "AppError"
  THEN [status |-> err.statusCode,
        body |-> [status |-> "error", message |-> err.message]]
  ELSE IF err.class = "PrismaClientKnownRequestError"
  THEN IF err.code = "P2002"
       THEN [status |-> 400,
             body |-> [status |-> "error",
                       message |-> "A unique constraint violation occurred"]]
       ELSE [status |-> 400,
             body |-> [status |-> "error", message |-> "Database operation failed"]]
  ELSE [status |-> 500,
        body |-> [status |-> "error", message |-> "Internal server error"]]

\* The routes behind router.use(authenticate): the handler and the roles of
\* its authorize guard, if it has one.
Route(h, g, ro) == [handler |-> h, guarded |-> g, roles |-> ro]

StockMutationRoutes ==
  {Route(h, TRUE, {"admin", "manager"}) :
     h \in {"createStock", "recordMovement", "adjustStock", "transferStock",
            "receivePurchaseOrder", "cancelSalesOrder"}}

DeletionRoutes ==
  {Route(h, TRUE, {"admin"}) :
     h \in {"deleteProduct", "deleteSupplier", "deleteWarehouse",
            "deletePurchaseOrder"}}

OpenRoutes == {Route(h, FALSE, {}) : h \in {"createSalesOrder", "getStocks"}}

Routes == StockMutationRoutes \cup DeletionRoutes \cup OpenRoutes

\* What a handler may pass to next: an AppError, a Prisma error raised by
\* the client, or any other error, whatever its name.
Errors ==
  {NewAppError("Stock not found", 404),
   NewAppError("Insufficient stock quantity", 400),
   [class |-> "PrismaClientKnownRequestError",
    name |-> "PrismaClientKnownRequestError", statusCode |-> 0,
    code |-> "P2002", message |-> "Unique constraint failed"],
   [class |-> "PrismaClientKnownRequestError",
    name |-> "PrismaClientKnownRequestError", statusCode |-> 0,
    code |-> "P2003", message |-> "Foreign key constraint failed"],
   [class |-> "PrismaClientValidationError",
    name |-> "PrismaClientValidationError", statusCode |-> 0,
    code |-> "", message |-> "Argument missing"],
   [class |-> "Error", name |-> "Error", statusCode |-> 0,
    code |-> "", message |-> "Unknown error"],
   [class |-> "Error", name |-> "PrismaClientKnownRequestError", statusCode |-> 0,
    code |-> "", message |-> "Unique constraint failed"]}

\* A request reaches a router.
Receive == \E h \in Headers, rt \in Routes :
  /\ http.pc \in {"none", "done"}
  /\ http' = [NoRequest EXCEPT !.pc = "authenticate", !.header = h, !.route = rt]
  /\ UNCHANGED <<dbvars, last, nops, req, receipts, created, products, users, areq, refs>>

\* The next middleware after one that passed err to next.
After(err, pc) == IF err /= NoError THEN "errorHandler" ELSE pc

Authenticate ==
  LET a == authenticate(http.header)
  IN /\ http.pc = "authenticate"
     /\ http' = [http EXCEPT
          !.user = a.user,
          !.error = a.next,
          !.nexts = Append(@, a.next),
          !.pc = After(a.next, IF http.route.guarded THEN "authorize" ELSE "handler")]
     /\ UNCHANGED <<dbvars, last, nops, req, receipts, created, products, users, areq, refs>>

Authorize ==
  LET e == authorize(http.route.roles, http.user)
  IN /\ http.pc = "authorize"
     /\ http' = [http EXCEPT
          !.error = e,
          !.nexts = Append(@, e),
          !.pc = After(e, "handler")]
     /\ UNCHANGED <<dbvars, last, nops, req, receipts, created, products, users, areq, refs>>

\* The controller: it answers, or it passes what it caught to next.
RunHandler == \E e \in Errors \cup {NoError} :
  /\ http.pc = "handler"
  /\ http' = [http EXCEPT
       !.ran = TRUE,
       !.error = e,
       !.nexts = IF e = NoError THEN @ ELSE Append(@, e),
       !.response = IF e = NoError
                    THEN [status |-> 200, body |-> [status |-> "", message |-> ""]]
                    ELSE @,
       !.pc = After(e, "done")]
  /\ UNCHANGED <<dbvars, last, nops, req, receipts, created, products, users, areq, refs>>

ErrorHandler ==
  /\ http.pc = "errorHandler"
  /\ http' = [http EXCEPT !.response = errorHandler(http.error), !.pc = "done"]
  /\ UNCHANGED <<dbvars, last, nops, req, receipts, created, products, users, areq, refs>>

NextHttp ==
  \/ Receive
  \/ Authenticate
  \/ Authorize
  \/ RunHandler
  \/ ErrorHandler

\* One request after another through authenticate, authorize, the handler
\* and errorHandler.
SpecHttp == Init /\ [][NextHttp]_vars

\* --------------------------------------------------------- auth controller
Usernames == {"ann", "bob"}
Passwords == {"secret1", "secret2"}

\* bcrypt.hash(password, 10) and bcrypt.compare(password, hashedPassword).
bcryptHash(password) == [algorithm |-> "bcrypt", rounds |-> 10, of |-> password]
bcryptCompare(password, hashedPassword) == hashedPassword.of = password

\* jwt.sign({userId, role}, process.env.JWT_SECRET, {expiresIn: '24h'})
jwtSign(userId, role) ==
  [signedWith |-> "JWT_SECRET", expired |-> FALSE, userId |-> userId,
   role |-> role]

\* user.findUnique({where: {username}}): the row's id, 0 for null.
FindUser(us, username) ==
  LET S == {i \in DOMAIN us : us[i].username = username}
  IN IF S = {} THEN 0 ELSE Min(S)

\* The unique index without its effect.
UsernameTaken_Never(us, username) == FALSE

\* User_username_key refuses the row.
UsernameTaken(us, username) == \E i \in DOMAIN us : us[i].username = username

\* What login and register answer, and the User table they leave.
AuthAnswer(code, msg, token, user, us) ==
  [status |-> code, message |-> msg, access |-> token, user |-> user,
   users |-> us]

PublicUser(id, u) == [id |-> id, username |-> u.username, role |-> u.role]
NoPublicUser == [id |-> 0, username |-> "", role |-> ""]

\* register once findUnique has returned row number existingUser (0: null).
\* role "" stands for a body without role.
RegisterAfterCheck(us, c, existingUser) ==
  IF existingUser /= 0
  THEN AuthAnswer(400, "Username already exists", NoToken, NoPublicUser, us)
  ELSE IF UsernameTaken(us, c.username)
  THEN AuthAnswer(400, "A unique constraint violation occurred", NoToken,
                  NoPublicUser, us)
  ELSE LET user == [username |-> c.username,
                    hashedPassword |-> bcryptHash(c.password),
                    role |-> IF c.role = "" THEN "user" ELSE c.role]
           id == Len(us) + 1
       IN AuthAnswer(201, "", jwtSign(id, user.role), PublicUser(id, user),
                     Append(us, user))

register(us, c) == RegisterAfterCheck(us, c, FindUser(us, c.username))

\* login that tells an unknown username from a wrong password.
login_Telling(us, c) ==
  IF FindUser(us, c.username) = 0
  THEN AuthAnswer(404, "User not found", NoToken, NoPublicUser, us)
  ELSE AuthAnswer(401, "Invalid credentials", NoToken, NoPublicUser, us)

login(us, c) ==
  LET user == FindUser(us, c.username)
  IN IF user = 0
     THEN AuthAnswer(401, "Invalid credentials", NoToken, NoPublicUser, us)
     ELSE IF ~bcryptCompare(c.password, us[user].hashedPassword)
     THEN AuthAnswer(401, "Invalid credentials", NoToken, NoPublicUser, us)
     ELSE AuthAnswer(200, "", jwtSign(user, us[user].role),
                     PublicUser(user, us[user]), us)

RegisterCalls ==
  [op : {"register"}, username : Usernames, password : Passwords,
   role : Roles \cup {""}]

LoginCalls == [op : {"login"}, username : Usernames, password : Passwords]

RespondAuth(c, a) ==
  /\ last' = [call |-> c, status |-> a.status, message |-> a.message,
              access |-> a.access, user |-> a.user]
  /\ users' = a.users
  /\ UNCHANGED <<dbvars, req, receipts, created, products, http, refs>>

\* register: findUnique is one statement, create a later one.
BeginRegister == \E r \in Requests, c \in RegisterCalls :
  /\ FirstFreeCall(r)
  /\ nops < MaxOps
  /\ nops' = nops + 1
  /\ areq' = [areq EXCEPT ![r] =
       [pc |-> "checked", call |-> c, seen |-> FindUser(users, c.username),
        seenSku |-> 0]]
  /\ UNCHANGED <<dbvars, last, req, receipts, created, products, users, http, refs>>

FinishRegister == \E r \in Requests :
  /\ areq[r].pc = "checked"
  /\ areq[r].call.op = "register"
  /\ RespondAuth(areq[r].call,
                 RegisterAfterCheck(users, areq[r].call, areq[r].seen))
  /\ areq' = [areq EXCEPT ![r] = IdleCall]
  /\ UNCHANGED nops

Login == \E c \in LoginCalls :
  /\ nops < MaxOps
  /\ nops' = nops + 1
  /\ RespondAuth(c, login(users, c))
  /\ UNCHANGED areq

NextAuth ==
  \/ BeginRegister
  \/ FinishRegister
  \/ Login

\* Registrations that overlap, and logins.
SpecAuth == Init /\ [][NextAuth]_vars

\* ------------------------------------------------- deletions and references
\* What a call on the catalogue answers, and the rows it leaves.
RefAnswer(code, msg, rf, ps) ==
  [status |-> code, message |-> msg, refs |-> rf, products |-> ps]

\* The rows that reference a warehouse, a location, a supplier: what
\* _count counts and what the foreign keys (ON DELETE RESTRICT) protect.
\* Location l is the location of warehouse l.
WarehouseProducts(ps, id) == {i \in ProductIds(ps) : ps[i].warehouseId = id}
WarehouseStocks(d, id) == {i \in DOMAIN d.stock : d.stock[i].warehouseId = id}
WarehouseLocations(rf, id) == {l \in rf.locations : l = id}
LocationStocks(d, id) == {i \in DOMAIN d.stock : d.stock[i].locationId = id}
SupplierProducts(ps, id) == {i \in ProductIds(ps) : ps[i].supplierId = id}
SupplierPurchaseOrders(d, id) ==
  {i \in DOMAIN d.purchaseOrders : d.purchaseOrders[i].supplierId = id}

\* What findUnique with _count shows a deletion: 0 for null, 2 for a row
\* the method's own test refuses to delete, 1 for a row it goes on to
\* delete.
ProductSeen(ps, d, id) ==
  IF id \notin ProductIds(ps) THEN 0 ELSE IF ProductInUse(d, id) THEN 2 ELSE 1

WarehouseSeen(rf, ps, d, id) ==
  IF id \notin rf.warehouses THEN 0
  ELSE IF WarehouseProducts(ps, id) /= {} \/ WarehouseStocks(d, id) /= {}
  THEN 2 ELSE 1

LocationSeen(rf, d, id) ==
  IF id \notin rf.locations THEN 0
  ELSE IF LocationStocks(d, id) /= {} THEN 2 ELSE 1

SupplierSeen(rf, ps, d, id) ==
  IF id \notin rf.suppliers THEN 0
  ELSE IF SupplierProducts(ps, id) /= {} \/ SupplierPurchaseOrders(d, id) /= {}
  THEN 2 ELSE 1

\* The DELETE statements with foreign keys that protect nothing.
Restricted_Never(referencing) == FALSE

\* ON DELETE RESTRICT: the engine refuses the DELETE of a row that rows
\* still reference.
Restricted(referencing) == referencing /= {}

\* Each deletion once findUnique has returned; the DELETE runs on the
\* database as it is by then, and a refused DELETE or one that finds no row
\* is a known request error, answered 400.
DeleteProductAfterCheck(rf, ps, d, id, seen) ==
  IF seen = 0 THEN RefAnswer(404, "Product not found", rf, ps)
  ELSE IF seen = 2
  THEN RefAnswer(400,
         "Cannot delete product with existing stock or order history", rf, ps)
  ELSE IF id \notin ProductIds(ps)
          \/ Restricted({x \in {id} : ProductInUse(d, id)})
  THEN RefAnswer(400, "Database operation failed", rf, ps)
  ELSE RefAnswer(204, "", rf, [ps EXCEPT ![id] = DeletedProduct])

DeleteWarehouseAfterCheck(rf, ps, d, id, seen) ==
  IF seen = 0 THEN RefAnswer(404, "Warehouse not found", rf, ps)
  ELSE IF seen = 2
  THEN RefAnswer(400,
         "Cannot delete warehouse with existing products or stock", rf, ps)
  ELSE IF id \notin rf.warehouses
          \/ Restricted(WarehouseProducts(ps, id))
          \/ Restricted(WarehouseStocks(d, id))
          \/ Restricted(WarehouseLocations(rf, id))
  THEN RefAnswer(400, "Database operation failed", rf, ps)
  ELSE RefAnswer(204, "", [rf EXCEPT !.warehouses = @ \ {id}], ps)

RemoveLocationAfterCheck(rf, ps, d, id, seen) ==
  IF seen = 0 THEN RefAnswer(404, "Location not found", rf, ps)
  ELSE IF seen = 2
  THEN RefAnswer(400, "Cannot delete location with existing stock", rf, ps)
  ELSE IF id \notin rf.locations \/ Restricted(LocationStocks(d, id))
  THEN RefAnswer(400, "Database operation failed", rf, ps)
  ELSE RefAnswer(204, "", [rf EXCEPT !.locations = @ \ {id}], ps)

DeleteSupplierAfterCheck(rf, ps, d, id, seen) ==
  IF seen = 0 THEN RefAnswer(404, "Supplier not found", rf, ps)
  ELSE IF seen = 2
  THEN RefAnswer(400,
         "Cannot delete supplier with existing products or purchase orders",
         rf, ps)
  ELSE IF id \notin rf.suppliers
          \/ Restricted(SupplierProducts(ps, id))
          \/ Restricted(SupplierPurchaseOrders(d, id))
  THEN RefAnswer(400, "Database operation failed", rf, ps)
  ELSE RefAnswer(204, "", [rf EXCEPT !.suppliers = @ \ {id}], ps)

deleteWarehouse(rf, ps, d, id) ==
  DeleteWarehouseAfterCheck(rf, ps, d, id, WarehouseSeen(rf, ps, d, id))

removeLocation(rf, ps, d, id) ==
  RemoveLocationAfterCheck(rf, ps, d, id, LocationSeen(rf, d, id))

deleteSupplier(rf, ps, d, id) ==
  DeleteSupplierAfterCheck(rf, ps, d, id, SupplierSeen(rf, ps, d, id))

\* createStock on a catalogue that deletions change: its two reads, then
\* its INSERT, which the foreign keys of Stock refuse when the product,
\* the warehouse or the location is gone.
CreateStockSeen(rf, d, c) ==
  IF c.locationId \notin rf.locations \/ c.locationId /= c.warehouseId THEN 0
  ELSE IF FindFirstStockAt(d, c.productId, c.locationId) /= 0 THEN 2 ELSE 1

InsertStock(rf, ps, d, c) ==
  IF \/ c.productId \notin ProductIds(ps)
     \/ c.warehouseId \notin rf.warehouses
     \/ c.locationId \notin rf.locations
  THEN KnownRequestError(d)
  ELSE Ok(201, [d EXCEPT !.stock = Append(@,
         [productId |-> c.productId, warehouseId |-> c.warehouseId,
          locationId |-> c.locationId, quantity |-> c.quantity])])

CreateStockAfterCheck(rf, ps, d, c, seen) ==
  IF seen = 0 THEN AppError("Invalid location for warehouse", 400, d)
  ELSE IF seen = 2
  THEN AppError("Stock already exists for this product in this location",
                400, d)
  ELSE InsertStock(rf, ps, d, c)

DeletionCalls ==
  [op : {"deleteProduct"}, id : 1..(NumProducts + 1)]
  \cup [op : {"deleteWarehouse", "removeLocation"}, id : LocationIds]
  \cup [op : {"deleteSupplier"}, id : SupplierIds]

Seen(c) ==
  CASE c.op = "deleteProduct" -> ProductSeen(products, DB, c.id)
    [] c.op = "deleteWarehouse" -> WarehouseSeen(refs, products, DB, c.id)
    [] c.op = "removeLocation" -> LocationSeen(refs, DB, c.id)
    [] c.op = "deleteSupplier" -> SupplierSeen(refs, products, DB, c.id)
    [] c.op = "createStock" -> CreateStockSeen(refs, DB, c)

\* The first statement of a call: findUnique (createStock: findUnique and
\* findFirst).
BeginCall(r, c) ==
  /\ FirstFreeCall(r)
  /\ nops < MaxOps
  /\ nops' = nops + 1
  /\ areq' = [areq EXCEPT ![r] =
       [pc |-> "checked", call |-> c, seen |-> Seen(c), seenSku |-> 0]]
  /\ UNCHANGED <<dbvars, last, req, receipts, created, products, users, http,
                 refs>>

BeginDeletion == \E r \in Requests, c \in DeletionCalls :
  /\ c.op /= "createStock"
  /\ BeginCall(r, c)

BeginCreateStock == \E r \in Requests, c \in CreateStockCalls :
  /\ c.op = "createStock"
  /\ BeginCall(r, c)

\* The rest of a deletion: its tests on what it read, then its DELETE.
FinishDeletion == \E r \in Requests :
  LET c == areq[r].call
      a == CASE c.op = "deleteProduct" ->
                  DeleteProductAfterCheck(refs, products, DB, c.id, areq[r].seen)
             [] c.op = "deleteWarehouse" ->
                  DeleteWarehouseAfterCheck(refs, products, DB, c.id, areq[r].seen)
             [] c.op = "removeLocation" ->
                  RemoveLocationAfterCheck(refs, products, DB, c.id, areq[r].seen)
             [] c.op = "deleteSupplier" ->
                  DeleteSupplierAfterCheck(refs, products, DB, c.id, areq[r].seen)
  IN /\ areq[r].pc = "checked"
     /\ c \in DeletionCalls
     /\ refs' = a.refs
     /\ products' = a.products
     /\ last' = [call |-> c, status |-> a.status, message |-> a.message]
     /\ areq' = [areq EXCEPT ![r] = IdleCall]
     /\ UNCHANGED <<dbvars, nops, req, receipts, created, users, http>>

FinishCreateStock == \E r \in Requests :
  LET c == areq[r].call
      a == CreateStockAfterCheck(refs, products, DB, c, areq[r].seen)
  IN /\ areq[r].pc = "checked"
     /\ c.op = "createStock"
     /\ stock' = a.db.stock
     /\ created' = created \o
          [i \in 1..(Len(a.db.stock) - Len(stock)) |-> c.quantity]
     /\ last' = [call |-> c, status |-> a.status, message |-> a.message]
     /\ areq' = [areq EXCEPT ![r] = IdleCall]
     /\ UNCHANGED <<movements, adjustments, purchaseOrders, salesOrders, nops,
                    req, receipts, products, users, http, refs>>

\* A purchase order on a supplier and products that exist.
OrderFromSupplier == \E c \in CreatePurchaseOrderCalls :
  /\ c.supplierId \in refs.suppliers
  /\ \A k \in DOMAIN c.items : c.items[k].productId \in ProductIds(products)
  /\ \A r \in Requests : areq[r].pc = "idle"
  /\ Serve(DB, c).status = 201
  /\ Handle(c)

NextRefs ==
  \/ BeginCreateStock
  \/ FinishCreateStock
  \/ OrderFromSupplier
  \/ BeginDeletion
  \/ FinishDeletion

\* Deletions of products, warehouses, locations and suppliers that overlap
\* one another and the creation of stock.
SpecRefs == Init /\ [][NextRefs]_vars

\* ------------------------------------------------------------- properties
RECURSIVE SumTo(_, _)
SumTo(f, n) == IF n = 0 THEN 0 ELSE f[n] + SumTo(f, n - 1)

Sum(f) == SumTo(f, Len(f))

\* What the StockMovement and StockAdjustment rows of Stock row s add up to.
Ledger(d, s) ==
  Sum([i \in DOMAIN d.movements |->
         IF d.movements[i].stockId /= s THEN 0
         ELSE IF d.movements[i].movementType = "IN"
         THEN d.movements[i].quantity ELSE 0 - d.movements[i].quantity])
  + Sum([i \in DOMAIN d.adjustments |->
         IF d.adjustments[i].stockId /= s THEN 0
         ELSE IF d.adjustments[i].adjustmentType = "ADD"
         THEN d.adjustments[i].quantity ELSE 0 - d.adjustments[i].quantity])

\* The quantity of product p over all Stock rows.
TotalQty(d, p) ==
  Sum([i \in DOMAIN d.stock |->
         IF d.stock[i].productId = p THEN d.stock[i].quantity ELSE 0])

\* The quantity a list of items asks of product p.
Requested(items, p) ==
  Sum([i \in DOMAIN items |->
         IF items[i].productId = p THEN items[i].quantity ELSE 0])

AllIdle == \A r \in Requests : req[r].pc = "idle"

\* This step answers a call: last' is its response.
Answered ==
  \/ nops' = nops + 1 /\ req' = req
  \/ \E r \in Requests : req[r].pc /= "idle" /\ req'[r].pc = "idle"

Insufficient(l) ==
  l.status = 400 /\ l.message = "Insufficient stock quantity"

\* C11: 'received' is terminal: an order whose status is 'received' stays
\* present with status 'received' over every step, also the last step of an
\* updatePurchaseOrder or deletePurchaseOrder that started before the
\* receipt committed; and an updatePurchaseOrder or deletePurchaseOrder that
\* starts on a received order is rejected with 400.
C11_ReceivedIsTerminal ==
  [][/\ \A id \in DOMAIN purchaseOrders :
          purchaseOrders[id].status = "received" =>
            purchaseOrders'[id].status = "received"
     /\ \A r \in Requests :
          LET c == req[r].call
          IN (/\ req[r].pc = "found" /\ req'[r].pc = "idle"
              /\ PurchaseOrderExists(req[r].snap, c.id)
              /\ req[r].snap.purchaseOrders[c.id].status = "received") =>
               last'.status = 400]_vars

\* C12: deletePurchaseOrder on an existing order whose status is not
\* 'received' answers 204 and removes the order, so that
\* getPurchaseOrderById for that id answers 404 'Purchase order not found'.
C12_DeleteRemovesOrder ==
  [][LET c == last'.call
     IN (/\ Answered
         /\ c.op = "deletePurchaseOrder"
         /\ PurchaseOrderExists(DB, c.id)
         /\ purchaseOrders[c.id].status /= "received") =>
          /\ last'.status = 204
          /\ getPurchaseOrderById(DB', c.id).status = 404
          /\ getPurchaseOrderById(DB', c.id).message = "Purchase order not found"]_vars

\* C13: cancelSalesOrder on an open sales order answers 200, sets the status
\* to 'cancelled', adds each item's quantity to the stock of its product and
\* records one IN movement per item; and createSalesOrder immediately
\* followed by cancelSalesOrder of the new order leaves every Stock row's
\* quantity as it was before the order.
C13_CancelUndoesCreate ==
  /\ \A id \in DOMAIN salesOrders :
       salesOrders[id].status = "open" =>
         LET r == cancelSalesOrder(DB, id)
             items == salesOrders[id].items
         IN /\ r.status = 200
            /\ r.db.salesOrders[id].status = "cancelled"
            /\ \A p \in Products :
                 TotalQty(r.db, p) = TotalQty(DB, p) + Requested(items, p)
            /\ Len(r.db.movements) = Len(movements) + Len(items)
            /\ \A i \in DOMAIN items :
                 LET mv == r.db.movements[Len(movements) + i]
                 IN /\ mv.movementType = "IN"
                    /\ mv.quantity = items[i].quantity
                    /\ mv.reason = Reason("SalesOrderCancelled", id)
                    /\ stock[mv.stockId].productId = items[i].productId
  /\ \A it \in ItemLists :
       LET r == createSalesOrder(DB, it)
       IN r.status = 201 =>
            cancelSalesOrder(r.db, Len(r.db.salesOrders)).db.stock = stock

\* An order was created and then cancelled, nothing else touched the stock,
\* and every row is back at the quantity it was created with.
C13_Witness ==
  /\ last.call.op = "cancelSalesOrder"
  /\ last.status = 200
  /\ Len(salesOrders) = 1
  /\ salesOrders[1].status = "cancelled"
  /\ stock /= <<>>
  /\ adjustments = <<>>
  /\ Len(movements) = 2 * Len(salesOrders[1].items)
  /\ \A s \in DOMAIN stock : stock[s].quantity = created[s]

\* No two products share a sku and no two share a barcode.
UniqueProducts(ps) ==
  \A i, j \in ProductIds(ps) :
    i /= j => ps[i].sku /= ps[j].sku /\ ps[i].barcode /= ps[j].barcode

\* C14: a createProduct whose sku or barcode is that of an existing product
\* is answered 400 and creates no product; and over every step, also of
\* createProduct calls that overlap, no two products share a sku and no two
\* share a barcode.
C14_DuplicateSkuRejected ==
  [][/\ UniqueProducts(products')
     /\ \A r \in Requests :
          LET c == areq[r].call
          IN (/\ areq[r].pc = "checked" /\ areq'[r].pc = "idle"
              /\ c.op = "createProduct"
              /\ \/ areq[r].seen /= 0
                 \/ FindFirstProduct(products, c.sku, c.barcode) /= 0) =>
               /\ last'.status = 400
               /\ products' = products]_vars

\* Two createProduct calls for one sku overlapped: both found no such
\* product, one inserted it and the other was refused by the unique index.
C14_Witness ==
  /\ last.call.op = "createProduct"
  /\ last.status = 400
  /\ last.message = "A unique constraint violation occurred"
  /\ \E i \in ProductIds(products) : products[i].sku = last.call.sku
  /\ last.call.sku \notin DOMAIN SeededProducts

\* C15: authorize(R) passes a request on to the handler only when req.user
\* exists and its role is in R; otherwise it calls next once, with a 403
\* AppError, and the handler does not run.  So no principal of role 'user'
\* runs createStock, recordMovement, adjustStock, transferStock,
\* receivePurchaseOrder or cancelSalesOrder, and only role 'admin' runs the
\* deletion of a product, supplier, warehouse or purchase order.
C15_RoleBased403 ==
  [][/\ (http.pc = "authorize" /\ http'.pc /= "authorize") =>
          /\ Len(http'.nexts) = Len(http.nexts) + 1
          /\ IF http.user /= NoUser /\ http.user.role \in http.route.roles
             THEN http'.pc = "handler" /\ http'.error = NoError
             ELSE /\ http'.pc = "errorHandler"
                  /\ http'.error.class = "AppError"
                  /\ http'.error.statusCode = 403
     /\ (http'.ran /\ http'.route.guarded) =>
          (http'.user /= NoUser /\ http'.user.role \in http'.route.roles)
     /\ (http'.ran /\ http'.route.handler \in
            {"createStock", "recordMovement", "adjustStock", "transferStock",
             "receivePurchaseOrder", "cancelSalesOrder"}) =>
          (http'.user /= NoUser /\ http'.user.role /= "user")
     /\ (http'.ran /\ http'.route.handler \in
            {"deleteProduct", "deleteSupplier", "deleteWarehouse",
             "deletePurchaseOrder"}) =>
          http'.user.role = "admin"]_vars

\* A manager asked for the deletion of a purchase order and was answered
\* 403; the handler did not run.
C15_Witness ==
  /\ http.pc = "done"
  /\ http.route.handler = "deletePurchaseOrder"
  /\ http.user.role = "manager"
  /\ http.response.status = 403
  /\ ~http.ran

\* The header is 'Bearer <token>' and nothing else.
BearerForm(h) == h.present /\ h.scheme = "Bearer" /\ h.space /\ ~h.trailing

\* C16: a request passes authenticate only if its Authorization header has
\* the form 'Bearer <token>' and the token verifies against JWT_SECRET;
\* then req.user is the token's userId and role and next is called without
\* an error.  In every other case next is called with a 401 AppError and
\* req.user is left unset.
C16_OnlyBearerTokenPasses ==
  [][(http.pc = "authenticate" /\ http'.pc /= "authenticate") =>
       IF BearerForm(http.header) /\ jwtVerify(http.header.token).ok
       THEN /\ http'.error = NoError
            /\ http'.pc /= "errorHandler"
            /\ http'.user = [userId |-> http.header.token.userId,
                             role |-> http.header.token.role]
       ELSE /\ http'.error.class = "AppError"
            /\ http'.error.statusCode = 401
            /\ http'.pc = "errorHandler"
            /\ http'.user = NoUser]_vars

\* The error is a database error: a Prisma request error, by class or name.
DatabaseError(err) ==
  err.class = "PrismaClientKnownRequestError"
    \/ err.name = "PrismaClientKnownRequestError"

C18_DatabaseError400 ==
  [][(/\ http.pc = "errorHandler" /\ http'.pc = "done"
      /\ http.error.name = "PrismaClientKnownRequestError") =>
       http'.response =
         [status |-> 400,
          body |-> [status |-> "error", message |-> "Database operation failed"]]]_vars

UniqueUsernames(us) ==
  \A i, j \in DOMAIN us : i /= j => us[i].username /= us[j].username

\* A register call that found no user of its username creates exactly one
\* user, with the requested role ('user' when none is given), and answers
\* 201 with a token.
Registered(c) ==
  /\ last'.status = 201
  /\ Len(users') = Len(users) + 1
  /\ \A i \in DOMAIN users : users'[i] = users[i]
  /\ users'[Len(users')].username = c.username
  /\ users'[Len(users')].role = (IF c.role = "" THEN "user" ELSE c.role)
  /\ last'.access = jwtSign(Len(users'), users'[Len(users')].role)
  /\ jwtVerify(last'.access).ok

\* C19 (as the spec states it): register with a username that exists
\* passes the AppError 400 'Username already exists' on and creates no
\* user; every other register call creates exactly one user with the
\* requested role and answers 201 with a token; usernames are unique in
\* every state, also when register calls overlap.
C19_RegisterOrReject ==
  [][/\ UniqueUsernames(users')
     /\ \A r \in Requests :
          LET c == areq[r].call
          IN (/\ areq[r].pc = "checked" /\ areq'[r].pc = "idle"
              /\ c.op = "register") =>
               IF areq[r].seen /= 0
               THEN /\ last'.status = 400
                    /\ last'.message = "Username already exists"
                    /\ users' = users
               ELSE Registered(c)]_vars

\* C19 (amended): as above, but a register call whose username was
\* registered by another call between its check and its insert is refused
\* by the unique index: it creates no user and is answered 400
\* 'A unique constraint violation occurred'.
C19_RegisterRejectOrLose ==
  [][/\ UniqueUsernames(users')
     /\ \A r \in Requests :
          LET c == areq[r].call
          IN (/\ areq[r].pc = "checked" /\ areq'[r].pc = "idle"
              /\ c.op = "register") =>
               IF areq[r].seen /= 0
               THEN /\ last'.status = 400
                    /\ last'.message = "Username already exists"
                    /\ users' = users
               ELSE IF FindUser(users, c.username) /= 0
               THEN /\ last'.status = 400
                    /\ last'.message = "A unique constraint violation occurred"
                    /\ users' = users
               ELSE Registered(c)]_vars

\* Two register calls for one username overlapped: one created the user,
\* the other was refused by the unique index.
C19_Witness ==
  /\ last.call.op = "register"
  /\ last.message = "A unique constraint violation occurred"
  /\ Len(users) = 1
  /\ users[1].username = last.call.username

\* C20: login answers with a token and the user's id, username and role
\* only when a user of that username exists and the password matches its
\* hash; when the username is unknown and when the password is wrong it
\* passes the same 401 'Invalid credentials' on and sends no token.
C20_LoginIndistinguishable ==
  [][(last'.call.op = "login" /\ nops' = nops + 1) =>
       LET c == last'.call
           u == FindUser(users, c.username)
       IN /\ users' = users
          /\ IF u /= 0 /\ users[u].hashedPassword = bcryptHash(c.password)
             THEN /\ last'.status = 200
                  /\ jwtVerify(last'.access).ok
                  /\ jwtVerify(last'.access).userId = u
                  /\ jwtVerify(last'.access).role = users[u].role
                  /\ last'.user = [id |-> u, username |-> c.username,
                                   role |-> users[u].role]
             ELSE /\ last'.status = 401
                  /\ last'.message = "Invalid credentials"
                  /\ last'.access = NoToken
                  /\ last'.user = NoPublicUser]_vars

\* A login with the wrong password for a registered user was answered 401.
C20_Witness ==
  /\ last.call.op = "login"
  /\ last.status = 401
  /\ last.message = "Invalid credentials"
  /\ FindUser(users, last.call.username) /= 0

\* Every Stock row references a product, a warehouse and a location that
\* exist, and every location a warehouse that exists.
ReferencesValid ==
  /\ \A i \in DOMAIN stock :
       /\ stock[i].productId \in ProductIds(products)
       /\ stock[i].warehouseId \in refs.warehouses
       /\ stock[i].locationId \in refs.locations
  /\ \A l \in refs.locations : l \in refs.warehouses

\* The entity a deletion names is referenced.
Referenced(c) ==
  CASE c.op = "deleteProduct" -> ProductInUse(DB, c.id)
    [] c.op = "deleteWarehouse" ->
         \/ \E i \in ProductIds(products) : products[i].warehouseId = c.id
         \/ \E i \in DOMAIN stock : stock[i].warehouseId = c.id
         \/ c.id \in refs.locations
    [] c.op = "removeLocation" ->
         \E i \in DOMAIN stock : stock[i].locationId = c.id
    [] c.op = "deleteSupplier" ->
         \/ \E i \in ProductIds(products) : products[i].supplierId = c.id
         \/ \E i \in DOMAIN purchaseOrders :
              purchaseOrders[i].supplierId = c.id

Exists(c) ==
  CASE c.op = "deleteProduct" -> c.id \in ProductIds(products)
    [] c.op = "deleteWarehouse" -> c.id \in refs.warehouses
    [] c.op = "removeLocation" -> c.id \in refs.locations
    [] c.op = "deleteSupplier" -> c.id \in refs.suppliers

\* C21: deleteProduct, deleteWarehouse, removeLocation and deleteSupplier
\* answer 400 and delete nothing while the entity is referenced (product:
\* by stock or order items; warehouse: by products, stock or locations;
\* location: by stock; supplier: by products or purchase orders); every
\* Stock row references an existing product, warehouse and location and
\* every Location an existing warehouse.
C21_DeletionGuards ==
  [][/\ ReferencesValid'
     /\ \A r \in Requests :
          LET c == areq[r].call
          IN (/\ areq[r].pc = "checked" /\ areq'[r].pc = "idle"
              /\ c \in DeletionCalls /\ Exists(c) /\ Referenced(c)) =>
               /\ last'.status = 400
               /\ refs' = refs
               /\ products' = products]_vars

\* A warehouse that only its location references was not deleted: the
\* foreign key of Location refused what the method's own test let through.
C21_Witness ==
  /\ last.call.op = "deleteWarehouse"
  /\ last.status = 400
  /\ last.message = "Database operation failed"
  /\ last.call.id \in refs.warehouses
  /\ last.call.id \in refs.locations

\* C22: createPurchaseOrder succeeds, creating one order with status 'open'
\* that holds exactly the given items, exactly when the items list is
\* non-empty, the supplier exists and every item's productId names an
\* existing product; otherwise it is rejected and no order is created.
C22_CreatePurchaseOrderExactly ==
  [][(last'.call.op = "createPurchaseOrder" /\ nops' = nops + 1) =>
       LET c == last'.call
       IN IF /\ Len(c.items) > 0
             /\ c.supplierId \in Suppliers
             /\ \A k \in DOMAIN c.items : c.items[k].productId \in Products
          THEN /\ last'.status = 201
               /\ purchaseOrders' = Append(purchaseOrders,
                    [supplierId |-> c.supplierId, status |-> "open",
                     items |-> c.items])
          ELSE /\ last'.status >= 400
               /\ purchaseOrders' = purchaseOrders]_vars

\* What the movements of sales order id took from stock, and what the
\* movements of its cancellation gave back.
Deducted(d, id) ==
  Sum([i \in DOMAIN d.movements |->
         IF d.movements[i].reason = Reason("SalesOrder", id)
         THEN d.movements[i].quantity ELSE 0])

Restored(d, id) ==
  Sum([i \in DOMAIN d.movements |->
         IF d.movements[i].reason = Reason("SalesOrderCancelled", id)
         THEN d.movements[i].quantity ELSE 0])

OrderQuantity(d, id) ==
  Sum([k \in DOMAIN d.salesOrders[id].items |->
         d.salesOrders[id].items[k].quantity])

\* C23: in every state reachable through createSalesOrder, updateSalesOrder
\* and cancelSalesOrder, the quantities of a sales order's items are
\* deducted once and not restored exactly when its status is 'open' or
\* 'completed', and deducted once and restored exactly once exactly when
\* its status is 'cancelled'; no order's items are restored more than once.
C23_StockEffectMatchesStatus ==
  \A id \in DOMAIN salesOrders :
    /\ Deducted(DB, id) = OrderQuantity(DB, id)
    /\ salesOrders[id].status \in {"open", "completed"} =>
         Restored(DB, id) = 0
    /\ salesOrders[id].status = "cancelled" =>
         Restored(DB, id) = OrderQuantity(DB, id)

\* C24: cancelSalesOrder succeeds only on an order whose status is 'open';
\* on an order whose status is 'cancelled' or 'completed' it is rejected
\* with 400 and changes neither the order nor any Stock row nor any
\* movement; updateSalesOrder on a 'completed' order is rejected with 400;
\* a 'completed' order stays 'completed' in any sequence of operations.
C24_CompletedAndCancelledRefuse ==
  [][/\ \A id \in DOMAIN salesOrders :
          salesOrders[id].status = "completed" =>
            salesOrders'[id].status = "completed"
     /\ (last'.call.op = "cancelSalesOrder" /\ nops' = nops + 1
           /\ last'.call.id \in DOMAIN salesOrders) =>
          IF salesOrders[last'.call.id].status = "open"
          THEN last'.status = 200
          ELSE /\ last'.status = 400
               /\ UNCHANGED dbvars
     /\ (last'.call.op = "updateSalesOrder" /\ nops' = nops + 1
           /\ last'.call.id \in DOMAIN salesOrders
           /\ salesOrders[last'.call.id].status = "completed") =>
          /\ last'.status = 400
          /\ UNCHANGED dbvars]_vars

\* A completed order was asked to be cancelled and was refused.
C24_Witness ==
  /\ last.call.op = "cancelSalesOrder"
  /\ last.status = 400
  /\ last.message = "Cannot cancel a completed order"
  /\ salesOrders[last.call.id].status = "completed"
  /\ \E i \in DOMAIN movements :
       movements[i].reason = Reason("SalesOrder", last.call.id)

\* C25: when recordMovement, adjustStock or transferStock is rejected (stock
\* not found 404, insufficient quantity 400, target location not found
\* 404), no Stock row is created or changed and no StockMovement or
\* StockAdjustment row is written.
C25_RejectedChangesNothing ==
  [][(/\ last'.call.op \in {"recordMovement", "adjustStock", "transferStock"}
      /\ nops' = nops + 1
      /\ last'.status >= 400) =>
       /\ last'.status \in {400, 404}
       /\ stock' = stock
       /\ movements' = movements
       /\ adjustments' = adjustments]_vars

\* A transfer that passed the tests of its source row was rejected for its
\* target location.
C25_Witness ==
  /\ last.call.op = "transferStock"
  /\ last.status = 404
  /\ last.message = "Target location not found"
  /\ last.call.sourceStockId \in DOMAIN stock
  /\ stock[last.call.sourceStockId].quantity >= last.call.quantity

\* C26: in every reachable state there is at most one Stock row for each
\* (productId, locationId) pair, also when createStock calls for the same
\* pair run concurrently.
C26_OneRowPerPair ==
  \A i, j \in DOMAIN stock :
    (/\ stock[i].productId = stock[j].productId
     /\ stock[i].locationId = stock[j].locationId) => i = j

\* C27: in every state reachable by operations executed one at a time, for
\* every Stock row, quantity = the quantity the row was created with + the
\* sum of its IN movements - the sum of its OUT movements + the sum of its
\* ADD adjustments - the sum of its REMOVE adjustments.
C27_LedgerExplainsQuantity ==
  \A s \in DOMAIN stock :
    stock[s].quantity - Ledger(DB, s) = created[s]

\* The database after the step.
DBNext ==
  [stock |-> stock', movements |-> movements', adjustments |-> adjustments',
   purchaseOrders |-> purchaseOrders', salesOrders |-> salesOrders']

\* The step wrote one movement for each of the items and moved each
\* product's total by what the items ask of it, sign times.
AllApplied(items, sign) ==
  /\ Len(movements') = Len(movements) + Len(items)
  /\ \A p \in Products :
       TotalQty(DBNext, p) = TotalQty(DB, p) + sign * Requested(items, p)

\* C28: createSalesOrder, cancelSalesOrder and receivePurchaseOrder each
\* commit the order row or status change together with all of their Stock
\* updates and StockMovement rows, or commit none of them.
C28_AllOrNothing ==
  [][(nops' = nops + 1 /\ last'.call.op \in
        {"createSalesOrder", "cancelSalesOrder", "receivePurchaseOrder"}) =>
       LET c == last'.call
       IN \/ UNCHANGED dbvars
          \/ /\ c.op = "createSalesOrder"
             /\ Len(salesOrders') = Len(salesOrders) + 1
             /\ AllApplied(c.items, 0 - 1)
          \/ /\ c.op = "cancelSalesOrder"
             /\ salesOrders'[c.id].status = "cancelled"
             /\ AllApplied(salesOrders[c.id].items, 1)
          \/ /\ c.op = "receivePurchaseOrder"
             /\ purchaseOrders'[c.id].status = "received"
             /\ AllApplied(purchaseOrders[c.id].items, 1)]_vars

\* C1: once every running stock mutation has finished, each Stock row's
\* quantity is the quantity it was created with plus every committed
\* increase minus every committed decrease, as the movement and adjustment
\* rows record them.
C1_NoLostUpdate ==
  AllIdle =>
    \A s \in DOMAIN stock :
      stock[s].quantity = created[s] + Ledger(DB, s)

\* C2: with requests served one at a time, every Stock row has
\* quantity >= 0.
C2_StockNeverNegative ==
  \A s \in DOMAIN stock : stock[s].quantity >= 0

\* The part of C3 for one request that takes quantity c.quantity from row s.
TakesFrom(c, s) ==
  s \in DOMAIN stock =>
    /\ Insufficient(last') <=> c.quantity > stock[s].quantity
    /\ c.quantity = stock[s].quantity =>
         /\ last'.status < 400 \/ last'.message = "Target location not found"
         /\ last'.status < 400 => stock'[s].quantity = 0

\* C3: recordMovement OUT, adjustStock REMOVE and transferStock are
\* rejected with 400 'Insufficient stock quantity' exactly when the
\* requested quantity exceeds the current quantity of the (source) row; a
\* request for exactly the current quantity succeeds and leaves the row at
\* 0; IN and ADD are never rejected for insufficiency.
C3_InsufficientStockRejection ==
  [][LET c == last'.call
     IN Answered =>
          /\ c.op = "recordMovement" =>
               IF c.movementType = "OUT" THEN TakesFrom(c, c.stockId)
               ELSE ~Insufficient(last')
          /\ c.op = "adjustStock" =>
               IF c.adjustmentType = "REMOVE" THEN TakesFrom(c, c.stockId)
               ELSE ~Insufficient(last')
          /\ c.op = "transferStock" => TakesFrom(c, c.sourceStockId)]_vars

\* Some product of the order is asked for in a larger total than the row
\* the order draws from holds, or has no Stock row.
Unavailable(d, items) ==
  \E p \in Products :
    /\ Requested(items, p) > 0
    /\ \/ FindFirstStock(d, p) = 0
       \/ Requested(items, p) > d.stock[FindFirstStock(d, p)].quantity

\* C4: createSalesOrder is rejected with 400, creating no order, changing
\* no Stock row and recording no movement, whenever the total quantity the
\* order requests for some product exceeds the quantity of the Stock row it
\* draws from, or that product has no Stock row.
C4_SalesOrderRejected ==
  [][LET c == last'.call
     IN (Answered /\ c.op = "createSalesOrder" /\ Unavailable(DB, c.items)) =>
          /\ last'.status = 400
          /\ UNCHANGED dbvars]_vars

\* The quantity of product p in the sales orders created.
Sold(d, p) ==
  Sum([i \in DOMAIN d.salesOrders |-> Requested(d.salesOrders[i].items, p)])

\* C5: the orders that succeed never take, together, more of a product than
\* the row they draw from held before them.
C5_NoOverselling ==
  \A p \in Products :
    FindFirstStock(DB, p) /= 0 =>
      Sold(DB, p) <= created[FindFirstStock(DB, p)]

\* C6: for every source row, existing target location and quantity q not
\* above the source quantity, transferStock succeeds, lowers the source row
\* by q, raises the row of the same product at the target location by q
\* (from 0 when the row is new) and leaves the product's total unchanged.
C6_TransferConserves ==
  [][LET c == last'.call
     IN (/\ Answered
         /\ c.op = "transferStock"
         /\ c.sourceStockId \in DOMAIN stock
         /\ c.targetLocationId \in Locations
         /\ c.quantity <= stock[c.sourceStockId].quantity) =>
          LET p == stock[c.sourceStockId].productId
              t0 == FindFirstStockAt(DB, p, c.targetLocationId)
              t == FindFirstStockAt(DB', p, c.targetLocationId)
          IN /\ last'.status = 200
             /\ stock'[c.sourceStockId].quantity =
                  stock[c.sourceStockId].quantity - c.quantity
             /\ t /= 0
             /\ stock'[t].quantity =
                  (IF t0 = 0 THEN 0 ELSE stock[t0].quantity) + c.quantity
             /\ TotalQty(DB', p) = TotalQty(DB, p)]_vars

\* C7: a successful receivePurchaseOrder sets the status to 'received' and,
\* for every item, raises the stock held for the item's product by the
\* item's quantity and records one IN StockMovement of that quantity.
C7_ReceiveAddsEveryItem ==
  [][LET c == last'.call
     IN (Answered /\ c.op = "receivePurchaseOrder" /\ last'.status = 200) =>
          /\ purchaseOrders'[c.id].status = "received"
          /\ \A i \in DOMAIN purchaseOrders[c.id].items :
               LET item == purchaseOrders[c.id].items[i]
               IN /\ TotalQty(DB', item.productId) =
                       TotalQty(DB, item.productId)
                         + Requested(purchaseOrders[c.id].items, item.productId)
                  /\ Cardinality(
                       {k \in (Len(movements) + 1)..Len(movements') :
                          /\ movements'[k].movementType = "IN"
                          /\ movements'[k].quantity = item.quantity
                          /\ movements'[k].reason = Reason("PurchaseOrder", c.id)
                          /\ stock'[movements'[k].stockId].productId
                               = item.productId}) = 1]_vars

\* The StockMovement rows written for the receipt of purchase order id.
ReceiptMovements(d, id) ==
  {k \in DOMAIN d.movements :
     d.movements[k].reason = Reason("PurchaseOrder", id)}

\* A receivePurchaseOrder call that found its order is answered, and not
\* with success.
ReceiveRefused ==
  /\ Answered
  /\ last'.call.op = "receivePurchaseOrder"
  /\ last'.status /= 200
  /\ \/ req' = req /\ last'.call.id \in DOMAIN purchaseOrders
     \/ \E r \in Requests :
          /\ req[r].pc = "tx" /\ req'[r].pc = "idle"
          /\ last'.call.id \in DOMAIN req[r].snap.purchaseOrders

OnceOnly(d, n) ==
  \A id \in DOMAIN d.purchaseOrders :
    /\ n[id] <= 1
    /\ Cardinality(ReceiptMovements(d, id)) <= Len(d.purchaseOrders[id].items)

C9_OnlyOpenReceived ==
  [][LET c == last'.call
     IN (/\ Answered
         /\ c.op = "receivePurchaseOrder"
         /\ c.id \in DOMAIN purchaseOrders
         /\ purchaseOrders[c.id].status /= "open") =>
          /\ last'.status = 400
          /\ UNCHANGED dbvars]_vars

\* C10: a purchase order's status is 'received' only through
\* receivePurchaseOrder: every order with status 'received' has been
\* received.
C10_ReceivedOnlyByReceipt ==
  \A id \in DOMAIN purchaseOrders :
    purchaseOrders[id].status = "received" => receipts[id] >= 1

====
